---- MODULE Spec2Model ----
(***************************************************************************)
(* A model of dhv-pdf-to-anki's layout-driven question extractor           *)
(* (src/src/dhv_pdf_to_anki/extract_questions.py), of the enrichment loop  *)
(* (extend_questions.py) and of the figure export (extract_images.py).     *)
(*                                                                         *)
(* Text is a sequence of tokens.  A token is one character (a digit, an    *)
(* answer letter, ")", ":", " ", "\n", a letter "w"/"x") or one of the     *)
(* words "Seite", "von", "Abbildung", whose letters occur in no other      *)
(* token, so that every match of the program's regular expressions and     *)
(* substring searches on the character string starts and ends on a token   *)
(* boundary.  Python's None in a text field is the one-token text NoneT.   *)
(***************************************************************************)
EXTENDS Integers, Sequences, FiniteSets, TLC

VARIABLES
    questions,              \* the output list (extract_questions.py:34)
    section_id,             \* :40
    subsection_id,          \* :41
    current_section,        \* :45
    current_subsection,     \* :46
    question_bbox,          \* :47  (None and [] are both falsy: <<>>)
    current_question_data,  \* :48  index into questions, 0 = None
    answer_bboxes,          \* :49
    page_num,               \* :50
    drawings,               \* :59  page.get_drawings() of the current page
    pc,                     \* "scan" | "done" (returned) | "raised"
    error,                  \* the exception that left the function
    files,                  \* images_dir: file name -> content
    doc,                    \* planned input: the pages not yet opened
    lines,                  \* planned input: the lines of the page not yet processed
    planned,                \* TRUE: input is read from doc; FALSE: input is chosen freely
    page,                   \* the page being processed: [text, shapes, search]
    save_images,            \* :22  the save_images argument
    input,                  \* the input the last step consumed: [kind, line, hits, renders]
    nsteps,                 \* pages opened and lines processed so far (bounds the free input)
    target_questions,       \* extend_questions.py:324  the list handed to the enrichment
    next_target,            \* :341  how many of target_questions the loop has taken
    extended_file,          \* :329  the records of extended_questions.json (<<>>: absent or empty)
    existing_questions,     \* :336  id -> record
    extended_questions,     \* :337  the list that is returned
    api_calls,              \* number of calls of the remote model so far
    xpc,                    \* enrichment: "idle" | "loop" | "returned" | "raised"
    ncalls,                 \* number of calls of generate_extended_questions so far
    output_dir,             \* extract_images.py:12  figure number -> content of Abbildung_<n>.png
    figure_doc,             \* extract_images.py:18  the pages of the picture PDF
    figure_page_num,        \* extract_images.py:26  how many pages the loop has taken
    extracted_count,        \* extract_images.py:23
    fpc,                    \* figure export: "idle" | "run" | "done"
    nruns                   \* number of runs of extract_images_with_numbers so far

extractvars == <<questions, section_id, subsection_id, current_section, current_subsection,
                 question_bbox, current_question_data, answer_bboxes, page_num, drawings,
                 pc, error, files, doc, lines, planned, page, save_images, input, nsteps>>

extendvars == <<target_questions, next_target, extended_file, existing_questions,
                extended_questions, api_calls, xpc, ncalls>>

figurevars == <<output_dir, figure_doc, figure_page_num, extracted_count, fpc, nruns>>

vars == <<extractvars, extendvars, figurevars>>

----------------------------------------------------------------------------
(* Program constants *)

vertical_margin == 4
padding == 10

(* Bounds of the model *)
MaxPages == 2
MaxSteps == 4
MaxShapes == 2

----------------------------------------------------------------------------
(* Strings as token sequences *)

NoneT == <<"None">>
Whitespace == {" ", "\n"}
Digits == {"1", "2", "7"}
AnswerLetters == {"A", "B", "C", "D"}

CharLen(t) == CASE t = "Seite" -> 5 [] t = "von" -> 3 [] t = "Abbildung" -> 9 [] OTHER -> 1

RECURSIVE StrLen(_)
StrLen(s) == IF s = <<>> THEN 0 ELSE CharLen(Head(s)) + StrLen(Tail(s))

Drop(s, n) == SubSeq(s, n + 1, Len(s))
Take(s, n) == SubSeq(s, 1, n)

RECURSIVE LStrip(_)
LStrip(s) == IF s # <<>> /\ Head(s) \in Whitespace THEN LStrip(Tail(s)) ELSE s

RECURSIVE RStrip(_)
RStrip(s) == IF s # <<>> /\ s[Len(s)] \in Whitespace THEN RStrip(Take(s, Len(s) - 1)) ELSE s

Strip(s) == RStrip(LStrip(s))

StartsWith(s, p) == Len(s) >= Len(p) /\ Take(s, Len(p)) = p

\* the first index >= i at which p occurs in s, 0 if there is none (str.find)
RECURSIVE FindFrom(_, _, _)
FindFrom(s, p, i) ==
    IF i + Len(p) - 1 > Len(s) THEN 0
    ELSE IF SubSeq(s, i, i + Len(p) - 1) = p THEN i
    ELSE FindFrom(s, p, i + 1)

Find(s, p) == FindFrom(s, p, 1)

Contains(s, p) == Find(s, p) # 0

\* the last index of the run of digits starting at i (i - 1 if s[i] is no digit)
RECURSIVE DigitsEnd(_, _)
DigitsEnd(s, i) ==
    IF i <= Len(s) /\ s[i] \in Digits THEN DigitsEnd(s, i + 1) ELSE i - 1

\* re: Seite \d+ von \d+ matched at index i; the index of its last token, 0 if no match
FooterEnd(s, i) ==
    IF i + 1 <= Len(s) /\ s[i] = "Seite" /\ s[i + 1] = " "
    THEN LET e1 == DigitsEnd(s, i + 2) IN
         IF e1 >= i + 2 /\ e1 + 3 <= Len(s)
            /\ s[e1 + 1] = " " /\ s[e1 + 2] = "von" /\ s[e1 + 3] = " "
         THEN LET e2 == DigitsEnd(s, e1 + 4) IN IF e2 >= e1 + 4 THEN e2 ELSE 0
         ELSE 0
    ELSE 0

RECURSIVE HasFooterFrom(_, _)
HasFooterFrom(s, i) ==
    IF i > Len(s) THEN FALSE
    ELSE IF FooterEnd(s, i) # 0 THEN TRUE ELSE HasFooterFrom(s, i + 1)

\* re.findall(r'Seite (\d+) von \d+', text) is not empty
HasFooter(s) == HasFooterFrom(s, 1)

\* re.sub(r'Seite \d+ von \d+', '', s): leftmost non-overlapping matches, one pass
RECURSIVE SubFooterFrom(_, _)
SubFooterFrom(s, i) ==
    IF i > Len(s) THEN <<>>
    ELSE IF FooterEnd(s, i) # 0 THEN SubFooterFrom(s, FooterEnd(s, i) + 1)
    ELSE <<s[i]>> \o SubFooterFrom(s, i + 1)

SubFooter(s) == SubFooterFrom(s, 1)

\* s.replace('\n', ' ')
ReplaceNl(s) == [i \in 1..Len(s) |-> IF s[i] = "\n" THEN " " ELSE s[i]]

RECURSIVE WsEnd(_, _)
WsEnd(s, i) == IF i <= Len(s) /\ s[i] \in Whitespace THEN WsEnd(s, i + 1) ELSE i - 1

\* re.sub(r'\s\s+', ' ', s)
RECURSIVE CollapseWsFrom(_, _)
CollapseWsFrom(s, i) ==
    IF i > Len(s) THEN <<>>
    ELSE IF WsEnd(s, i) >= i + 1 THEN <<" ">> \o CollapseWsFrom(s, WsEnd(s, i) + 1)
    ELSE <<s[i]>> \o CollapseWsFrom(s, i + 1)

CollapseWs(s) == CollapseWsFrom(s, 1)

\* s.replace(p, ''): leftmost non-overlapping occurrences
RECURSIVE RemoveAllFrom(_, _, _)
RemoveAllFrom(s, p, i) ==
    IF i > Len(s) THEN <<>>
    ELSE IF i + Len(p) - 1 <= Len(s) /\ SubSeq(s, i, i + Len(p) - 1) = p
         THEN RemoveAllFrom(s, p, i + Len(p))
    ELSE <<s[i]>> \o RemoveAllFrom(s, p, i + 1)

RemoveAll(s, p) == RemoveAllFrom(s, p, 1)

\* s.split('\n')
RECURSIVE SplitNl(_)
SplitNl(s) ==
    LET k == Find(s, <<"\n">>) IN
    IF k = 0 THEN <<s>> ELSE <<Take(s, k - 1)>> \o SplitNl(Drop(s, k))

\* the three substitutions applied to a question's and an answer's body
CleanBody(s) == CollapseWs(ReplaceNl(SubFooter(s)))

----------------------------------------------------------------------------
(* Line Segmenter: extract_questions.py:61-62 *)

\* the lookahead (\d\d\d|\d\d|\d|[ABCD])\) + at index i: the captured group, <<>> if no match
MarkerAt(s, i) ==
    LET FollowedByParen(k) == k + 2 <= Len(s) /\ s[k + 1] = ")" /\ s[k + 2] = " "
        IsDigit(k) == k <= Len(s) /\ s[k] \in Digits
    IN  IF IsDigit(i) /\ IsDigit(i + 1) /\ IsDigit(i + 2) /\ FollowedByParen(i + 2)
            THEN SubSeq(s, i, i + 2)
        ELSE IF IsDigit(i) /\ IsDigit(i + 1) /\ FollowedByParen(i + 1)
            THEN SubSeq(s, i, i + 1)
        ELSE IF IsDigit(i) /\ FollowedByParen(i)
            THEN SubSeq(s, i, i)
        ELSE IF i <= Len(s) /\ s[i] \in AnswerLetters /\ FollowedByParen(i)
            THEN SubSeq(s, i, i)
        ELSE <<>>

\* re.split(r'\n(?=(\d\d\d|\d\d|\d|[ABCD])\) +)', text): the pieces between the
\* matched newlines, each followed by the group the match captured
RECURSIVE SplitMarkersFrom(_, _, _)
SplitMarkersFrom(s, start, i) ==
    IF i > Len(s) THEN <<SubSeq(s, start, Len(s))>>
    ELSE IF s[i] = "\n" /\ MarkerAt(s, i + 1) # <<>>
         THEN <<SubSeq(s, start, i - 1), MarkerAt(s, i + 1)>> \o SplitMarkersFrom(s, i + 1, i + 1)
    ELSE SplitMarkersFrom(s, start, i + 1)

SplitMarkers(s) == SplitMarkersFrom(s, 1, 1)

KeepLine(x) == StrLen(x) # 1

\* lines = list(filter(lambda x: len(x) != 1, re.split(...)))
SplitLines(text) == SelectSeq(SplitMarkers(text), KeepLine)

----------------------------------------------------------------------------
(* Record Builder: the text of a question line and of an answer line *)

\* re.match(r"^[0-9]+\) ", s)
IsQuestionLine(s) ==
    LET e == DigitsEnd(s, 1) IN
    e >= 1 /\ e + 2 <= Len(s) /\ s[e + 1] = ")" /\ s[e + 2] = " "

\* re.match(r"[ABCD]\) ", s)
IsAnswerLine(s) ==
    Len(s) >= 3 /\ s[1] \in AnswerLetters /\ s[2] = ")" /\ s[3] = " "

LineKind(line) ==
    IF IsQuestionLine(Strip(line)) THEN "question"
    ELSE IF IsAnswerLine(Strip(line)) THEN "answer"
    ELSE "context"

\* line.split(') ', 1)
SplitParen(line) ==
    LET k == Find(line, <<")", " ">>) IN [head |-> Take(line, k - 1), body |-> Drop(line, k + 1)]

\* extract_questions.py:74-87: ok = FALSE is the ValueError of the two-name
\* unpacking of line.split(': ', 1) when the body holds no ': '
ParseQuestionLine(line) ==
    LET sp == SplitParen(line)
        body == CleanBody(sp.body)
        j == Find(body, <<":", " ">>)
    IN  IF StartsWith(body, <<"Abbildung", " ">>)
        THEN IF j = 0
             THEN [ok |-> FALSE, id |-> Strip(sp.head), abbildung |-> NoneT, question |-> <<>>]
             ELSE [ok |-> TRUE, id |-> Strip(sp.head),
                   abbildung |-> Strip(RemoveAll(Take(body, j - 1), <<"Abbildung", " ">>)),
                   question |-> Strip(Drop(body, j + 1))]
        ELSE [ok |-> TRUE, id |-> Strip(sp.head), abbildung |-> NoneT, question |-> Strip(body)]

\* extract_questions.py:95-100
ParseAnswerLine(line) ==
    LET sp == SplitParen(line) IN [code |-> sp.head, text |-> Strip(CleanBody(sp.body))]

----------------------------------------------------------------------------
(* Geometry: text boxes (fitz.Rect of page.search_for) and vector shapes *)

Box(x0, y0, x1, y1) == [x0 |-> x0, y0 |-> y0, x1 |-> x1, y1 |-> y1]

\* fills are RGB triples in thousandths, NoFill is drawing.get('fill') = None
NoFill == <<>>
SectionFill == <<843, 843, 843>>
SubsectionFill == <<922, 922, 922>>
BlackFill == <<0, 0, 0>>

Shape(type, rect, fill) == [type |-> type, rect |-> rect, fill |-> fill]

PageWidth == 100
PageHeight == 100

Min2(a, b) == IF a <= b THEN a ELSE b
Max2(a, b) == IF a >= b THEN a ELSE b
Abs(a) == IF a >= 0 THEN a ELSE 0 - a
Last(s) == s[Len(s)]

\* min(answer_bbox, key=lambda bbox: bbox.y0): the first box of least y0
RECURSIVE MinY0(_)
MinY0(s) ==
    IF Len(s) = 1 THEN s[1]
    ELSE LET m == MinY0(Tail(s)) IN IF Head(s).y0 <= m.y0 THEN Head(s) ELSE m

\* extract_questions.py:107-114
AnswerCandidates(hits, qbox) ==
    IF qbox # <<>>
    THEN LET Below(b) == b.y0 > qbox[1].y0
             below == SelectSeq(hits, Below)
         IN  IF below # <<>> THEN <<MinY0(below)>> ELSE below
    ELSE hits

\* the top of the shape at most vertical_margin away, the distance itself allowed
LeftOfAnswerClosed(rect, bbox) ==
    /\ rect.y0 - vertical_margin <= bbox.y0 /\ bbox.y0 <= rect.y1 + vertical_margin
    /\ rect.y0 - vertical_margin <= bbox.y1 /\ bbox.y1 <= rect.y1 + vertical_margin
    /\ rect.x1 <= bbox.x0
    /\ Abs(rect.y0 - bbox.y0) <= vertical_margin

\* extract_questions.py:120-124
LeftOfAnswer(rect, bbox) ==
    /\ rect.y0 - vertical_margin <= bbox.y0 /\ bbox.y0 <= rect.y1 + vertical_margin
    /\ rect.y0 - vertical_margin <= bbox.y1 /\ bbox.y1 <= rect.y1 + vertical_margin
    /\ rect.x1 <= bbox.x0
    /\ Abs(rect.y0 - bbox.y0) < vertical_margin

\* extract_questions.py:145-148 and 157-160
StartsInside(rect, bbox) ==
    /\ rect.x0 <= bbox.x0 /\ bbox.x0 <= rect.x1
    /\ rect.y0 <= bbox.y0 /\ bbox.y0 <= rect.y1

----------------------------------------------------------------------------
(* Exceptions *)

NoError == [type |-> "none", what |-> "", qid |-> NoneT]
MultipleCorrect(qid) == [type |-> "ValueError", what |-> "Multiple correct answers found for question", qid |-> qid]
UnpackError == [type |-> "ValueError", what |-> "not enough values to unpack", qid |-> NoneT]
ListIndexError == [type |-> "IndexError", what |-> "list index out of range", qid |-> NoneT]

----------------------------------------------------------------------------
(* Geometry Matcher, correctness indicator: extract_questions.py:115-131.   *)
(* st = [qs, err]: the question list and the exception raised so far.       *)

\* mutant: the label is appended without the check of :127-129
MarkCorrectUnchecked(st, code) ==
    IF st.qs = <<>> THEN [st EXCEPT !.err = ListIndexError]
    ELSE [st EXCEPT !.qs[Len(st.qs)].correct = Append(@, code)]

\* mutant: a second indicator silently replaces the label
MarkCorrectOverwrite(st, code) ==
    IF st.qs = <<>> THEN [st EXCEPT !.err = ListIndexError]
    ELSE [st EXCEPT !.qs[Len(st.qs)].correct = <<code>>]

\* :126-131, reached for a shape with a fill that is left of an answer box
MarkCorrect(st, code) ==
    IF st.qs = <<>> THEN [st EXCEPT !.err = ListIndexError]
    ELSE IF Last(st.qs).correct # <<>>
         THEN [st EXCEPT !.err = MultipleCorrect(Last(st.qs).id)]
    ELSE [st EXCEPT !.qs[Len(st.qs)].correct = Append(@, code)]

\* :119-131, for bbox in answer_bbox
RECURSIVE MarkBoxes(_, _, _, _)
MarkBoxes(st, d, boxes, code) ==
    IF boxes = <<>> \/ st.err # NoError THEN st
    ELSE MarkBoxes(IF LeftOfAnswer(d.rect, Head(boxes)) /\ d.fill # NoFill
                   THEN MarkCorrect(st, code) ELSE st,
                   d, Tail(boxes), code)

\* :115-116, for drawing in drawings
RECURSIVE MarkDrawings(_, _, _, _)
MarkDrawings(st, ds, boxes, code) ==
    IF ds = <<>> \/ st.err # NoError THEN st
    ELSE MarkDrawings(IF Head(ds).type = "fs" THEN MarkBoxes(st, Head(ds), boxes, code) ELSE st,
                      Tail(ds), boxes, code)

----------------------------------------------------------------------------
(* Geometry Matcher, banners: extract_questions.py:135-165.                 *)
(* st = [section, section_id, subsection, subsection_id, err]               *)

HitInside(rect, boxes) == \E i \in 1..Len(boxes) : StartsInside(rect, boxes[i])

\* the section match that also starts the subsections of the new section afresh
SectionMatchResets(st, d, segs, boxes) ==
    IF d.fill = SectionFill /\ HitInside(d.rect, boxes)
    THEN IF Len(segs) < 2 THEN [st EXCEPT !.err = ListIndexError]
         ELSE [st EXCEPT !.section = Strip(segs[Len(segs) - 1]), !.section_id = @ + 1,
                         !.subsection = NoneT, !.subsection_id = 0]
    ELSE st

\* :142-153
SectionMatch(st, d, segs, boxes) ==
    IF d.fill = SectionFill /\ HitInside(d.rect, boxes)
    THEN IF Len(segs) < 2 THEN [st EXCEPT !.err = ListIndexError]
         ELSE [st EXCEPT !.section = Strip(segs[Len(segs) - 1]), !.section_id = @ + 1]
    ELSE st

\* :154-165
SubsectionMatch(st, d, segs, boxes) ==
    IF d.fill = SubsectionFill /\ HitInside(d.rect, boxes)
    THEN [st EXCEPT !.subsection = Strip(segs[Len(segs)]), !.subsection_id = @ + 1]
    ELSE st

\* :136-165, for drawing in drawings
RECURSIVE BannerDrawings(_, _, _, _)
BannerDrawings(st, ds, segs, boxes) ==
    IF ds = <<>> \/ st.err # NoError THEN st
    ELSE LET d == Head(ds)
             s1 == IF d.type = "f" THEN SectionMatch(st, d, segs, boxes) ELSE st
             s2 == IF d.type = "f" /\ s1.err = NoError
                   THEN SubsectionMatch(s1, d, segs, boxes) ELSE s1
         IN  BannerDrawings(s2, Tail(ds), segs, boxes)

----------------------------------------------------------------------------
(* Per-question image capture: save_question_image, :174-231 *)

RECURSIVE MinOf(_, _)
MinOf(s, f) == IF Len(s) = 1 THEN s[1][f] ELSE Min2(s[1][f], MinOf(Tail(s), f))
RECURSIVE MaxOf(_, _)
MaxOf(s, f) == IF Len(s) = 1 THEN s[1][f] ELSE Max2(s[1][f], MaxOf(Tail(s), f))

\* :193-208
ClipRect(qbox, aboxes) ==
    LET all == qbox \o aboxes IN
    Box(Max2(0, MinOf(all, "x0") - padding), Max2(0, MinOf(all, "y0") - padding),
        Min2(PageWidth, MaxOf(all, "x1") + padding), Min2(PageHeight, MaxOf(all, "y1") + padding))

\* :215-222: the file name is decided by these four fields
ImagePath(q) == <<q.section_id, q.subsection_id, q.id, q.page>>

\* :212: the pixels of a clip of a page
Pixmap(pageno, rect) == [page |-> pageno, clip |-> rect]

\* pix.save(image_path), :223
WriteFile(fs, path, content) ==
    [f \in DOMAIN fs \cup {path} |-> IF f = path THEN content ELSE fs[f]]

\* the path stored in the record before the image is rendered and written
SaveQuestionImageEarlyPath(st, k, qbox, aboxes, renders) ==
    IF qbox = <<>> \/ aboxes = <<>> THEN st
    ELSE LET q == st.qs[k]
             path == ImagePath(q)
         IN  [qs |-> [st.qs EXCEPT ![k].image_path = path],
              fs |-> IF renders THEN WriteFile(st.fs, path, Pixmap(q.page, ClipRect(qbox, aboxes)))
                     ELSE st.fs]

\* the whole function; renders = FALSE is any exception inside the try block.
\* st = [qs, fs]: the question list and the image directory
SaveQuestionImage(st, k, qbox, aboxes, renders) ==
    IF qbox = <<>> \/ aboxes = <<>> THEN st
    ELSE IF ~renders THEN st
    ELSE LET q == st.qs[k]
             path == ImagePath(q)
         IN  [qs |-> [st.qs EXCEPT ![k].image_path = path],
              fs |-> WriteFile(st.fs, path, Pixmap(q.page, ClipRect(qbox, aboxes)))]

\* the condition of :68 and :168
WillSave ==
    save_images /\ current_question_data # 0 /\ answer_bboxes # <<>> /\ question_bbox # <<>>

\* :68-69 and :168-169
FinalizeQuestion(renders) ==
    IF WillSave
    THEN SaveQuestionImage([qs |-> questions, fs |-> files], current_question_data,
                           question_bbox, answer_bboxes, renders)
    ELSE [qs |-> questions, fs |-> files]

----------------------------------------------------------------------------
(* The inputs of the free-input specification *)

FooterText == <<"Seite", " ", "1", " ", "von", " ", "2">>

QBox == Box(20, 20, 80, 30)
ABoxA == Box(20, 40, 80, 50)
ABoxB == Box(20, 60, 80, 70)
HBox == Box(20, 4, 80, 14)
\* the box of a context line that starts inside the banner shapes and ends below them
TallBox == Box(20, 4, 80, 30)

FilledMarkA == Shape("fs", Box(5, 40, 15, 50), BlackFill)
FilledMarkB == Shape("fs", Box(5, 60, 15, 70), BlackFill)
EmptyMarkA == Shape("fs", Box(5, 40, 15, 50), NoFill)
\* a filled shape whose top is exactly vertical_margin above the top of ABoxB
OffsetMarkB == Shape("fs", Box(5, 56, 15, 70), BlackFill)
\* a filled shape left of HBox, at the top of a page
FilledMarkTop == Shape("fs", Box(5, 4, 15, 14), BlackFill)
SectionBanner == Shape("f", Box(0, 0, 100, 16), SectionFill)
SubsectionBanner == Shape("f", Box(0, 0, 100, 16), SubsectionFill)

SampleShapes ==
    {FilledMarkA, FilledMarkB, EmptyMarkA, OffsetMarkB, FilledMarkTop, SectionBanner,
     SubsectionBanner}

SeqsUpTo(S, n) == UNION {[1..k -> S] : k \in 0..n}

\* pages with a footer and any shapes; pages without one (their shapes are never read)
FreePages ==
    {[text |-> FooterText, shapes |-> sh, search |-> <<>>] : sh \in SeqsUpTo(SampleShapes, MaxShapes)}
    \cup {[text |-> <<"w">>, shapes |-> sh, search |-> <<>>] : sh \in {<<>>, <<FilledMarkA>>}}

QuestionLines ==
    {<<"1", ")", " ", "w">>,
     <<"2", ")", " ", "Abbildung", " ", "7", ":", " ", "w">>,
     <<"2", ")", " ", "Abbildung", " ", "7">>}
AnswerLines == {<<"A", ")", " ", "x">>, <<"B", ")", " ", "x">>}
ContextLines == {<<"w">>, <<"w", "\n", "x">>}
FreeLines == QuestionLines \cup AnswerLines \cup ContextLines

\* what page.search_for may return for a line: nothing; the line's own box, for an
\* answer in the middle or at the top of the page; for an answer also a second hit
\* above the question
AnswerBox(line) == IF Strip(line)[1] = "A" THEN ABoxA ELSE ABoxB

FreeHits(line) ==
    CASE LineKind(line) = "question" -> {<<>>, <<QBox>>}
      [] LineKind(line) = "answer" ->
            {<<>>, <<AnswerBox(line)>>, <<HBox>>, <<HBox, AnswerBox(line)>>}
      [] OTHER -> {<<>>, <<HBox>>, <<TallBox>>}

\* whether the rendering and writing of an image succeeds is an input of the lines
\* that finalize a question, and of no other line
RenderOutcomes(line) ==
    IF WillSave /\ LineKind(line) = "question" THEN BOOLEAN ELSE {TRUE}

NoPage == [text |-> <<>>, shapes |-> <<>>, search |-> <<>>]

\* page.search_for(needle) of a planned page
SearchFor(p, needle) == IF needle \in DOMAIN p.search THEN p.search[needle] ELSE <<>>

----------------------------------------------------------------------------
(* extract_questions_from_pdf, :22-171 *)

NoPath == <<>>

InitProgram ==
    /\ questions = <<>>
    /\ section_id = 0
    /\ subsection_id = 0
    /\ current_section = NoneT
    /\ current_subsection = NoneT
    /\ question_bbox = <<>>
    /\ current_question_data = 0
    /\ answer_bboxes = <<>>
    /\ page_num = 0
    /\ drawings = <<>>
    /\ pc = "scan"
    /\ error = NoError
    /\ page = NoPage
    /\ lines = <<>>
    /\ input = [kind |-> "none", line |-> <<>>, hits |-> <<>>, renders |-> TRUE]
    /\ nsteps = 0
    /\ target_questions = <<>>
    /\ next_target = 0
    /\ extended_file = <<>>
    /\ existing_questions = <<>>
    /\ extended_questions = <<>>
    /\ api_calls = 0
    /\ xpc = "idle"
    /\ ncalls = 0
    /\ output_dir = <<>>
    /\ figure_doc = <<>>
    /\ figure_page_num = 0
    /\ extracted_count = 0
    /\ fpc = "idle"
    /\ nruns = 0

\* an image an earlier run left in images_dir (os.makedirs(..., exist_ok=True), :38)
OldImage == Pixmap(0, Box(0, 0, 1, 1))
PriorFiles == {<<>>, [f \in {<<0, 0, <<"1">>, 0>>} |-> OldImage]}

\* a call with save_images=False
Init ==
    /\ InitProgram
    /\ save_images = FALSE
    /\ files = <<>>
    /\ planned = FALSE
    /\ doc = <<>>

\* a call with save_images=True on an images_dir that is empty or holds an old image
InitImages ==
    /\ InitProgram
    /\ save_images = TRUE
    /\ files \in PriorFiles
    /\ planned = FALSE
    /\ doc = <<>>

\* the shapes fetched once, for the first page only
LoadDrawingsHoisted(p, old) == IF page_num = 0 THEN p.shapes ELSE old

\* page.get_drawings(), :59
LoadDrawings(p, old) == p.shapes

\* :52-62, the head of the page loop; results[0] raises IndexError on a page
\* whose text holds no 'Seite n von m'
OpenPage(p) ==
    /\ page_num' = page_num + 1
    /\ page' = p
    /\ input' = [kind |-> "page", line |-> <<>>, hits |-> <<>>, renders |-> TRUE]
    /\ IF HasFooter(p.text)
       THEN /\ drawings' = LoadDrawings(p, drawings)
            /\ lines' = IF planned THEN SplitLines(p.text) ELSE <<>>
            /\ UNCHANGED <<pc, error>>
       ELSE /\ pc' = "raised"
            /\ error' = ListIndexError
            /\ UNCHANGED <<drawings, lines>>
    /\ UNCHANGED <<questions, section_id, subsection_id, current_section, current_subsection,
                   question_bbox, current_question_data, answer_bboxes, files, save_images>>

\* the record stamped with the subsection counter in both id fields
NewQuestionSwapped(p) ==
    [section |-> current_section, subsection |-> current_subsection,
     question |-> p.question, answers |-> <<>>, correct |-> <<>>,
     abbildung |-> p.abbildung, id |-> p.id, section_id |-> subsection_id,
     subsection_id |-> subsection_id, page |-> page_num - 1, image_path |-> NoPath]

\* :86-87
NewQuestion(p) ==
    [section |-> current_section, subsection |-> current_subsection,
     question |-> p.question, answers |-> <<>>, correct |-> <<>>,
     abbildung |-> p.abbildung, id |-> p.id, section_id |-> section_id,
     subsection_id |-> subsection_id, page |-> page_num - 1, image_path |-> NoPath]

\* the question line without the reset of :72: the pending answer boxes stay
QuestionLineKeepsBoxes(line, hits, renders) ==
    LET fin == FinalizeQuestion(renders)
        p == ParseQuestionLine(line)
    IN  /\ files' = fin.fs
        /\ answer_bboxes' = answer_bboxes
        /\ IF p.ok
           THEN /\ questions' = Append(fin.qs, NewQuestion(p))
                /\ current_question_data' = Len(fin.qs) + 1
                /\ question_bbox' = hits
                /\ UNCHANGED <<pc, error>>
           ELSE /\ questions' = fin.qs
                /\ pc' = "raised"
                /\ error' = UnpackError
                /\ UNCHANGED <<current_question_data, question_bbox>>
        /\ UNCHANGED <<section_id, subsection_id, current_section, current_subsection>>

\* :66-89
QuestionLine(line, hits, renders) ==
    LET fin == FinalizeQuestion(renders)
        p == ParseQuestionLine(line)
    IN  /\ files' = fin.fs
        /\ answer_bboxes' = <<>>
        /\ IF p.ok
           THEN /\ questions' = Append(fin.qs, NewQuestion(p))
                /\ current_question_data' = Len(fin.qs) + 1
                /\ question_bbox' = hits
                /\ UNCHANGED <<pc, error>>
           ELSE /\ questions' = fin.qs
                /\ pc' = "raised"
                /\ error' = UnpackError
                /\ UNCHANGED <<current_question_data, question_bbox>>
        /\ UNCHANGED <<section_id, subsection_id, current_section, current_subsection>>

\* the answer stored in the first Question of the list
SetAnswerFirst(qs, a) ==
    IF qs # <<>> THEN [qs EXCEPT ![1].answers = (a.code :> a.text) @@ @] ELSE qs

\* :100
SetAnswer(qs, a) ==
    IF qs # <<>> THEN [qs EXCEPT ![Len(qs)].answers = (a.code :> a.text) @@ @] ELSE qs

\* :91-131
AnswerLine(line, hits) ==
    LET a == ParseAnswerLine(line)
        st == MarkDrawings([qs |-> SetAnswer(questions, a), err |-> NoError], drawings,
                           AnswerCandidates(hits, question_bbox), a.code)
    IN  /\ questions' = st.qs
        /\ answer_bboxes' = answer_bboxes \o hits
        /\ error' = st.err
        /\ pc' = IF st.err = NoError THEN pc ELSE "raised"
        /\ UNCHANGED <<section_id, subsection_id, current_section, current_subsection,
                       question_bbox, current_question_data, files>>

\* :132-165
ContextLine(line, hits) ==
    LET st == BannerDrawings([section |-> current_section, section_id |-> section_id,
                              subsection |-> current_subsection,
                              subsection_id |-> subsection_id, err |-> NoError],
                             drawings, SplitNl(Strip(line)), hits)
    IN  /\ current_section' = st.section
        /\ section_id' = st.section_id
        /\ current_subsection' = st.subsection
        /\ subsection_id' = st.subsection_id
        /\ error' = st.err
        /\ pc' = IF st.err = NoError THEN pc ELSE "raised"
        /\ UNCHANGED <<questions, question_bbox, current_question_data, answer_bboxes, files>>

\* :63-165, the body of the loop over the lines of a page
ProcessLine(line, hits, renders) ==
    /\ input' = [kind |-> "line", line |-> line, hits |-> hits, renders |-> renders]
    /\ UNCHANGED <<page_num, drawings, page, save_images>>
    /\ CASE LineKind(line) = "question" -> QuestionLine(line, hits, renders)
         [] LineKind(line) = "answer" -> AnswerLine(line, hits)
         [] OTHER -> ContextLine(line, hits)

\* :167-171
Return(renders) ==
    LET fin == FinalizeQuestion(renders) IN
    /\ questions' = fin.qs
    /\ files' = fin.fs
    /\ pc' = "done"
    /\ input' = [kind |-> "return", line |-> <<>>, hits |-> <<>>, renders |-> renders]
    /\ UNCHANGED <<section_id, subsection_id, current_section, current_subsection,
                   question_bbox, current_question_data, answer_bboxes, page_num, drawings,
                   error, page, save_images, lines>>

----------------------------------------------------------------------------
(* Free input: any page and any line may come next *)

FreePage ==
    /\ pc = "scan" /\ ~planned /\ page_num < MaxPages /\ nsteps + 1 < MaxSteps
    /\ \E p \in FreePages : OpenPage(p)
    /\ nsteps' = nsteps + 1
    /\ UNCHANGED <<doc, planned>>
    /\ UNCHANGED <<extendvars, figurevars>>

FreeLine ==
    /\ pc = "scan" /\ ~planned /\ page_num >= 1 /\ nsteps < MaxSteps
    /\ \E line \in FreeLines : \E hits \in FreeHits(line) : \E renders \in RenderOutcomes(line) :
          ProcessLine(line, hits, renders)
    /\ nsteps' = nsteps + 1
    /\ UNCHANGED <<doc, planned, lines>>
    /\ UNCHANGED <<extendvars, figurevars>>

FreeReturn ==
    /\ pc = "scan" /\ ~planned /\ page_num >= 1
    /\ \E renders \in (IF WillSave THEN BOOLEAN ELSE {TRUE}) : Return(renders)
    /\ UNCHANGED <<doc, planned, nsteps>>
    /\ UNCHANGED <<extendvars, figurevars>>

Next == FreePage \/ FreeLine \/ FreeReturn

Spec == Init /\ [][Next]_vars

SpecImages == InitImages /\ [][Next]_vars

----------------------------------------------------------------------------
(* Planned input: the document is fixed at the start, pages and lines are   *)
(* read from it in order, and page.search_for is the page's search table    *)

PlanPage ==
    /\ pc = "scan" /\ planned /\ lines = <<>> /\ doc # <<>>
    /\ OpenPage(Head(doc))
    /\ doc' = Tail(doc)
    /\ UNCHANGED <<planned, nsteps>>
    /\ UNCHANGED <<extendvars, figurevars>>

PlanLine ==
    /\ pc = "scan" /\ planned /\ lines # <<>>
    /\ \E renders \in RenderOutcomes(Head(lines)) :
          ProcessLine(Head(lines), SearchFor(page, Strip(Head(lines))), renders)
    /\ lines' = Tail(lines)
    /\ UNCHANGED <<doc, planned, nsteps>>
    /\ UNCHANGED <<extendvars, figurevars>>

PlanReturn ==
    /\ pc = "scan" /\ planned /\ lines = <<>> /\ doc = <<>> /\ page_num >= 1
    /\ \E renders \in (IF WillSave THEN BOOLEAN ELSE {TRUE}) : Return(renders)
    /\ UNCHANGED <<doc, planned, nsteps>>
    /\ UNCHANGED <<extendvars, figurevars>>

NextPlan == PlanPage \/ PlanLine \/ PlanReturn

InitPlan(docs) ==
    /\ InitProgram
    /\ planned = TRUE
    /\ doc \in docs

----------------------------------------------------------------------------
(* Text documents: one page without shapes whose text is a footer line, a   *)
(* question line and possibly an answer line; the body of the last line is  *)
(* any concatenation of at most MaxChunks chunks                            *)

MaxChunks == 4

Chunks ==
    {<<"w">>, <<" ">>, <<"\n">>, FooterText, <<"Seite", " ", "1">>, <<"von", " ", "2">>,
     <<"Abbildung", " ">>, <<"Abbildung">>, <<"7", ":">>}

RECURSIVE Concat(_)
Concat(ss) == IF ss = <<>> THEN <<>> ELSE Head(ss) \o Concat(Tail(ss))

Bodies == {Concat(cs) : cs \in SeqsUpTo(Chunks, MaxChunks)}

QuestionText(body) == FooterText \o <<"\n", "1", ")", " ">> \o body
AnswerText(body) == QuestionText(<<"w">>) \o <<"\n", "A", ")", " ">> \o body

\* a question with an id of two or three digits after the footer line
LongIdText(id) == FooterText \o <<"\n">> \o id \o <<")", " ", "w">>

TextDocs ==
    {<<[text |-> t, shapes |-> <<>>, search |-> <<>>]>> :
        t \in {QuestionText(b) : b \in Bodies} \cup {AnswerText(b) : b \in Bodies}
               \cup {LongIdText(id) : id \in {<<"1", "2">>, <<"1", "2", "7">>}}}

InitText ==
    /\ InitPlan(TextDocs)
    /\ save_images = FALSE
    /\ files = <<>>

SpecText == InitText /\ [][NextPlan]_vars

----------------------------------------------------------------------------
(* Fixture documents: one page whose text is a question line N) followed by  *)
(* the answer lines A) to D), with one filled indicator left of the box of   *)
(* label L, the footer absent or after the last answer, and possibly an      *)
(* unfilled checkbox left of another answer                                  *)

FixtureQBox == Box(20, 10, 80, 18)
FixtureTop(label) ==
    CASE label = "A" -> 25 [] label = "B" -> 40 [] label = "C" -> 55 [] OTHER -> 70
FixtureBox(label) == Box(20, FixtureTop(label), 80, FixtureTop(label) + 8)
FixtureMark(label, fill) == Shape("fs", Box(5, FixtureTop(label), 15, FixtureTop(label) + 8), fill)
FixtureAnswer(label) ==
    CASE label = "A" -> <<"x">> [] label = "B" -> <<"y">> [] label = "C" -> <<"z">> [] OTHER -> <<"w">>
NextLabel(label) ==
    CASE label = "A" -> "B" [] label = "B" -> "C" [] label = "C" -> "D" [] OTHER -> "A"

FixtureLine(label, footer) ==
    <<label, ")", " ">> \o FixtureAnswer(label)
       \o (IF footer /\ label = "D" THEN <<"\n">> \o FooterText ELSE <<>>)
FixtureQuestion(id) == id \o <<")", " ", "w", " ", "x">>
FixtureText(id, footer) ==
    FixtureQuestion(id) \o <<"\n">> \o FixtureLine("A", footer) \o <<"\n">> \o FixtureLine("B", footer)
       \o <<"\n">> \o FixtureLine("C", footer) \o <<"\n">> \o FixtureLine("D", footer)

FixtureSearch(id, footer) ==
    [needle \in {FixtureQuestion(id)} \cup {FixtureLine(l, footer) : l \in AnswerLetters} |->
        IF needle = FixtureQuestion(id) THEN <<FixtureQBox>> ELSE <<FixtureBox(needle[1])>>]

FixturePage(id, label, footer, checkbox) ==
    [text |-> FixtureText(id, footer),
     shapes |-> (IF checkbox THEN <<FixtureMark(NextLabel(label), NoFill)>> ELSE <<>>)
                   \o <<FixtureMark(label, BlackFill)>>,
     search |-> FixtureSearch(id, footer)]

FixtureIds == {<<"1">>, <<"1", "2">>}

FixtureDocs ==
    {<<FixturePage(id, label, footer, checkbox)>> :
        id \in FixtureIds, label \in AnswerLetters, footer \in BOOLEAN, checkbox \in BOOLEAN}

InitPage ==
    /\ InitPlan(FixtureDocs)
    /\ save_images = FALSE
    /\ files = <<>>

SpecPage == InitPage /\ [][NextPlan]_vars

----------------------------------------------------------------------------
(* Banner documents: two pages, each beginning with the footer and a header  *)
(* of two segments found at the top of the page, with any banner shapes      *)
(* behind it; the second page, and possibly the first, goes on with a        *)
(* question line                                                             *)

HeaderText == FooterText \o <<"\n", "w", "\n", "x">>
BannerQuestion == <<"1", ")", " ", "w">>
BannerShapeLists ==
    {<<>>, <<SectionBanner>>, <<SubsectionBanner>>, <<SectionBanner, SubsectionBanner>>,
     <<SubsectionBanner, SectionBanner>>}

BannerPage(shapes, question) ==
    [text |-> HeaderText \o (IF question THEN <<"\n">> \o BannerQuestion ELSE <<>>),
     shapes |-> shapes,
     search |-> (HeaderText :> <<HBox>>) @@ (BannerQuestion :> <<QBox>>)]

BannerDocs ==
    {<<BannerPage(s1, q1), BannerPage(s2, TRUE)>> :
        s1 \in BannerShapeLists, s2 \in BannerShapeLists, q1 \in BOOLEAN}

InitBanner ==
    /\ InitPlan(BannerDocs)
    /\ save_images = FALSE
    /\ files = <<>>

SpecBanner == InitBanner /\ [][NextPlan]_vars

----------------------------------------------------------------------------
(* Enrichment, text functions: extend_questions.py:31-132.  The tokens of    *)
(* these texts are single characters and the word "Abbildung".               *)

Separators == {" ", ",", "."}
HexDigits == Digits \cup AnswerLetters

\* str.lower() of a token, as far as the keyword test can tell
Lower(t) == IF t = "Abbildung" THEN "abbildung" ELSE t

\* extend_questions.py:31-33
has_abbildung_in_text(text) == \E i \in 1..Len(text) : Lower(text[i]) = "abbildung"

\* extend_questions.py:36-40, re.findall(r'(?<=[ ,.])[0-9A-F](?=[ ,.])', text)
RECURSIVE NumbersFrom(_, _)
NumbersFrom(text, i) ==
    IF i >= Len(text) THEN <<>>
    ELSE IF text[i] \in HexDigits /\ text[i - 1] \in Separators /\ text[i + 1] \in Separators
         THEN <<text[i]>> \o NumbersFrom(text, i + 1)
    ELSE NumbersFrom(text, i + 1)

extract_numbers_from_text(text) == NumbersFrom(text, 2)

\* extend_questions.py:43-46
has_multiple_numbers(text) == Len(extract_numbers_from_text(text)) > 1

\* the end of the run of whitespace that starts at i (i - 1 if there is none)
RECURSIVE SpaceEnd(_, _)
SpaceEnd(s, i) == IF i <= Len(s) /\ s[i] \in Whitespace THEN SpaceEnd(s, i + 1) ELSE i - 1

\* the lookahead (?=\s*[0-9]\s*=|$) at position i
AnswerStop(s, i) ==
    \/ i = Len(s) + 1
    \/ i = Len(s) /\ s[i] = "\n"
    \/ LET d == SpaceEnd(s, i) + 1 IN
       /\ d <= Len(s) /\ s[d] \in Digits
       /\ LET e == SpaceEnd(s, d + 1) + 1 IN e <= Len(s) /\ s[e] = "="

\* ([^0-9]+?) from g: the last index of the shortest run of non-digits from g
\* that the lookahead follows, 0 if there is none
RECURSIVE LazyEnd(_, _, _)
LazyEnd(s, g, e) ==
    IF e > Len(s) \/ s[e] \in Digits THEN 0
    ELSE IF AnswerStop(s, e + 1) THEN e
    ELSE LazyEnd(s, g, e + 1)

\* \s* before the group, greedy: the group starts at g, or further left when the
\* regex gives whitespace back; [from, to] of the group, <<>> if there is none
RECURSIVE GroupFrom(_, _, _)
GroupFrom(s, g, lowest) ==
    IF g < lowest THEN <<>>
    ELSE IF LazyEnd(s, g, g) # 0 THEN <<g, LazyEnd(s, g, g)>>
    ELSE GroupFrom(s, g - 1, lowest)

\* the match of rf'{n}\s*=\s*([^0-9]+?)(?=\s*[0-9]\s*=|$)' that starts at p
MatchAt(s, n, p) ==
    IF s[p] # n THEN <<>>
    ELSE LET k == SpaceEnd(s, p + 1) + 1 IN
         IF k > Len(s) \/ s[k] # "=" THEN <<>>
         ELSE GroupFrom(s, SpaceEnd(s, k + 1) + 1, k + 1)

\* re.search: the leftmost match
RECURSIVE SearchAnswer(_, _, _)
SearchAnswer(s, n, p) ==
    IF p > Len(s) THEN <<>>
    ELSE IF MatchAt(s, n, p) # <<>> THEN MatchAt(s, n, p)
    ELSE SearchAnswer(s, n, p + 1)

\* extend_questions.py:115-132; answers is the mapping label -> text, correct a
\* label; the result <<>> is the empty string
extract_answer_for_number(answers, correct, n) ==
    IF answers = <<>> \/ correct \notin DOMAIN answers THEN <<>>
    ELSE LET m == SearchAnswer(answers[correct], n, 1) IN
         IF m = <<>> THEN <<>> ELSE Strip(SubSeq(answers[correct], m[1], m[2]))

----------------------------------------------------------------------------
(* Enrichment: generate_extended_questions, extend_questions.py:324-390,     *)
(* called by the pipeline with the whole output list (__main__.py:121-128)   *)

MaxNumbers == 2
MaxSources == 2
MaxCalls == 2

DigitChar(n) ==
    CASE n = 0 -> "0" [] n = 1 -> "1" [] n = 2 -> "2" [] n = 3 -> "3" [] n = 4 -> "4"
      [] n = 5 -> "5" [] n = 6 -> "6" [] n = 7 -> "7" [] n = 8 -> "8" [] OTHER -> "9"

\* str(n) of an integer below 100
Dec(n) == IF n < 10 THEN <<DigitChar(n)>> ELSE <<DigitChar(n \div 10), DigitChar(n % 10)>>

\* :342
OriginalId(q) == q.id \o Dec(q.section_id) \o Dec(q.subsection_id)

\* :359
NewId(original_id, i) == <<"9", "9">> \o original_id \o <<"0", "0", "0">> \o Dec(i)

\* a key that a record does not have
Missing == <<"Missing">>

\* what the remote call gives back: nothing usable (no content, an exception:
\* call_mistral_api returns ""), text that is no JSON, a JSON object, or JSON
\* that is no object
ApiOutcomes == {"empty", "not_json", "object", "not_object"}

PointQuestion(n) == <<"Punkt", " ", n>>

\* :218-236 and :272-288
FallbackQuestion(q, n, correct_answer) ==
    [section |-> q.section, subsection |-> q.subsection, question |-> PointQuestion(n),
     answers |-> (<<"A">> :> correct_answer) @@ (<<"B">> :> <<"Andere">>)
                    @@ (<<"C">> :> <<"Unbekanntes">>) @@ (<<"D">> :> <<"Sonstiges">>),
     correct |-> <<<<"A">>>>, abbildung |-> q.abbildung, section_id |-> q.section_id,
     subsection_id |-> q.subsection_id, page |-> q.page]

\* :254-265: the object of the response with the metadata of the original
GeneratedQuestion(q, n, correct_answer) ==
    [section |-> q.section, subsection |-> q.subsection, question |-> PointQuestion(n),
     answers |-> (<<"A">> :> <<"Andere">>) @@ (<<"B">> :> correct_answer)
                    @@ (<<"C">> :> <<"Unbekanntes">>) @@ (<<"D">> :> <<"Sonstiges">>),
     correct |-> <<<<"B">>>>, abbildung |-> q.abbildung, section_id |-> q.section_id,
     subsection_id |-> q.subsection_id, page |-> Missing]

\* generate_single_question, :184-288; ok = FALSE is the AttributeError of
\* generated_data.update (:257) on JSON that is no object
generate_single_question(q, n, correct_answer, outcome) ==
    CASE outcome = "object" -> [ok |-> TRUE, q |-> GeneratedQuestion(q, n, correct_answer)]
      [] outcome = "not_object" -> [ok |-> FALSE, q |-> FallbackQuestion(q, n, correct_answer)]
      [] OTHER -> [ok |-> TRUE, q |-> FallbackQuestion(q, n, correct_answer)]

\* :375-377
Stamp(rec, new_id, original_id, n) ==
    [section |-> rec.section, subsection |-> rec.subsection, question |-> rec.question,
     answers |-> rec.answers, correct |-> rec.correct, abbildung |-> rec.abbildung,
     section_id |-> rec.section_id, subsection_id |-> rec.subsection_id, page |-> rec.page,
     id |-> new_id, original_id |-> original_id, target_number |-> n]

\* save_extended_question, :302-321: the record is appended to the list of the
\* file; written = FALSE is any exception of the reading or the writing, which
\* is reported and swallowed (:320-321)
save_extended_question(file, rec, written) == IF written THEN Append(file, rec) ELSE file

\* :357-388, for i, number in enumerate(numbers, 1);
\* st = [existing, extended, file, calls, err]
RECURSIVE ExtendNumbers(_, _, _, _, _, _)
ExtendNumbers(st, q, numbers, i, outcomes, written) ==
    IF i > Len(numbers) \/ st.err THEN st
    ELSE LET new_id == NewId(OriginalId(q), i)
             correct_answer == extract_answer_for_number(q.answers, q.correct[1], numbers[i])
             made == generate_single_question(q, numbers[i], correct_answer, outcomes[i])
             rec == Stamp(made.q, new_id, OriginalId(q), numbers[i])
             next ==
                 IF new_id \in DOMAIN st.existing \/ correct_answer = <<>> THEN st
                 ELSE IF ~made.ok THEN [st EXCEPT !.calls = @ + 1, !.err = TRUE]
                 ELSE [existing |-> (new_id :> rec) @@ st.existing,
                       extended |-> Append(st.extended, rec),
                       file |-> save_extended_question(st.file, rec, written[i]),
                       calls |-> st.calls + 1,
                       err |-> FALSE]
         IN  ExtendNumbers(next, q, numbers, i + 1, outcomes, written)

\* :341-388, one question of the loop
ExtendOne(st, q, outcomes, written) ==
    IF q.correct = <<>> THEN st
    ELSE ExtendNumbers(st, q, extract_numbers_from_text(q.question), 1, outcomes, written)

\* load_existing_extended_questions, :291-299, and list(values()), :337: one
\* record for every id, the last of the file, in the order of the first
RECURSIVE LastWithId(_, _)
LastWithId(file, id) ==
    IF file[Len(file)].id = id THEN file[Len(file)] ELSE LastWithId(Take(file, Len(file) - 1), id)

LoadExisting(file) == [id \in {file[i].id : i \in 1..Len(file)} |-> LastWithId(file, id)]

RECURSIVE ExistingValues(_, _)
ExistingValues(file, i) ==
    IF i > Len(file) THEN <<>>
    ELSE IF \E j \in 1..(i - 1) : file[j].id = file[i].id THEN ExistingValues(file, i + 1)
    ELSE <<LastWithId(file, file[i].id)>> \o ExistingValues(file, i + 1)

\* __main__.py:121-128 with MISTRAL_API_KEY set, extend_questions.py:324-339
StartExtend ==
    /\ pc = "done" /\ xpc \in {"idle", "returned", "raised"} /\ ncalls < MaxCalls
    /\ ncalls' = ncalls + 1
    /\ target_questions' = questions
    /\ next_target' = 0
    /\ existing_questions' = LoadExisting(extended_file)
    /\ extended_questions' = ExistingValues(extended_file, 1)
    /\ xpc' = "loop"
    /\ UNCHANGED <<extended_file, api_calls>>
    /\ UNCHANGED <<extractvars, figurevars>>

\* :341-388, one pass of the loop over target_questions
ExtendQuestion ==
    /\ xpc = "loop" /\ next_target < Len(target_questions)
    /\ \E outcomes \in [1..MaxNumbers -> ApiOutcomes] :
       \E written \in [1..MaxNumbers -> BOOLEAN] :
          LET st == ExtendOne([existing |-> existing_questions, extended |-> extended_questions,
                               file |-> extended_file, calls |-> api_calls, err |-> FALSE],
                              target_questions[next_target + 1], outcomes, written)
          IN  /\ existing_questions' = st.existing
              /\ extended_questions' = st.extended
              /\ extended_file' = st.file
              /\ api_calls' = st.calls
              /\ xpc' = IF st.err THEN "raised" ELSE "loop"
    /\ next_target' = next_target + 1
    /\ UNCHANGED <<target_questions, ncalls>>
    /\ UNCHANGED <<extractvars, figurevars>>

\* :390
ExtendReturn ==
    /\ xpc = "loop" /\ next_target = Len(target_questions)
    /\ xpc' = "returned"
    /\ UNCHANGED <<target_questions, next_target, extended_file, existing_questions,
                   extended_questions, api_calls, ncalls>>
    /\ UNCHANGED <<extractvars, figurevars>>

NextExtend == StartExtend \/ ExtendQuestion \/ ExtendReturn

\* the Questions that the extraction hands over: a text with or without the
\* keyword and with no, one or two numbers; the marked answer names the points,
\* or does not, or no answer is marked
SourceTexts ==
    {<<"w">>,
     <<"w", " ", "1", " ", "w">>,
     <<"w", " ", "1", " ", "2", " ", "w">>,
     <<"w", " ", "Abbildung", " ", "1", " ", "w">>,
     <<"w", " ", "Abbildung", " ", "1", " ", "2", " ", "w">>}

PointsText == <<"1", " ", "=", " ", "x", " ", "2", " ", "=", " ", "y">>

SourceMarks ==
    {[answers |-> (<<"A">> :> PointsText), correct |-> <<<<"A">>>>],
     [answers |-> (<<"A">> :> <<"x">>), correct |-> <<<<"A">>>>],
     [answers |-> (<<"A">> :> PointsText), correct |-> <<>>]}

SourceQuestion(id, text, mark) ==
    [section |-> NoneT, subsection |-> NoneT, question |-> text, answers |-> mark.answers,
     correct |-> mark.correct, abbildung |-> NoneT, id |-> id, section_id |-> 0,
     subsection_id |-> 0, page |-> 0, image_path |-> NoPath]

\* two Questions that differ in id and in subsection_id: question 1 of
\* subsection 11 and question 11 of subsection 1, both of section 1
NearQuestions(t, m) ==
    <<[SourceQuestion(<<"1">>, t[1], m[1]) EXCEPT !.section_id = 1, !.subsection_id = 11],
      [SourceQuestion(<<"1", "1">>, t[2], m[2]) EXCEPT !.section_id = 1, !.subsection_id = 1]>>

SourceLists ==
    UNION {{[i \in 1..n |-> SourceQuestion(Dec(i), t[i], m[i])] :
              t \in [1..n -> SourceTexts], m \in [1..n -> SourceMarks]} : n \in 1..MaxSources}
    \cup {NearQuestions(t, m) : t \in [1..2 -> SourceTexts], m \in [1..2 -> SourceMarks]}

\* the pipeline after extract_questions_from_pdf has returned (__main__.py:110)
InitExtend ==
    /\ questions \in SourceLists
    /\ pc = "done"
    /\ section_id = Last(questions).section_id /\ subsection_id = Last(questions).subsection_id
    /\ current_section = NoneT /\ current_subsection = NoneT
    /\ question_bbox = <<>> /\ current_question_data = Len(questions) /\ answer_bboxes = <<>>
    /\ page_num = 1 /\ drawings = <<>> /\ error = NoError /\ files = <<>>
    /\ doc = <<>> /\ lines = <<>> /\ planned = TRUE /\ page = NoPage /\ save_images = FALSE
    /\ input = [kind |-> "return", line |-> <<>>, hits |-> <<>>, renders |-> TRUE]
    /\ nsteps = 0
    /\ target_questions = <<>>
    /\ next_target = 0
    /\ extended_file = <<>>
    /\ existing_questions = <<>>
    /\ extended_questions = <<>>
    /\ api_calls = 0
    /\ xpc = "idle"
    /\ ncalls = 0
    /\ output_dir = <<>>
    /\ figure_doc = <<>>
    /\ figure_page_num = 0
    /\ extracted_count = 0
    /\ fpc = "idle"
    /\ nruns = 0

SpecExtend == InitExtend /\ [][NextExtend]_vars

----------------------------------------------------------------------------
(* Figure export: extract_images_with_numbers, extract_images.py:12-162.     *)
(* A page is its text spans, [text, y], and its images, [readable, cmyk,     *)
(* alpha, rects, pix]: whether fitz.Pixmap(doc, xref) succeeds, the colour   *)
(* space, the tops of the rectangles where the page shows it, its pixels.    *)

MaxRuns == 2
MaxSpans == 2
MaxImages == 2

\* :103 and :139, min_distance < 200
max_distance == 200

\* the number that r'Abbildung\s+(\d+(?:\.\d+)?)' captures when matched at index
\* i of the text (re.IGNORECASE), <<>> if it does not match there
CaptionAt(s, i) ==
    IF Lower(s[i]) # "abbildung" THEN <<>>
    ELSE LET d == SpaceEnd(s, i + 1) + 1
             e == DigitsEnd(s, d)
             f == IF e + 1 <= Len(s) /\ s[e + 1] = "." THEN DigitsEnd(s, e + 2) ELSE e
         IN  IF d = i + 1 \/ e < d THEN <<>>
             ELSE IF f >= e + 2 THEN SubSeq(s, d, f)
             ELSE SubSeq(s, d, e)

\* re.search, :48: the leftmost match
RECURSIVE CaptionFrom(_, _)
CaptionFrom(s, i) ==
    IF i > Len(s) THEN <<>>
    ELSE IF CaptionAt(s, i) # <<>> THEN CaptionAt(s, i)
    ELSE CaptionFrom(s, i + 1)

\* :41-57, abbildung_positions of a page
RECURSIVE AbbildungPositions(_)
AbbildungPositions(spans) ==
    IF spans = <<>> THEN <<>>
    ELSE (IF CaptionFrom(Head(spans).text, 1) # <<>>
          THEN <<[number |-> CaptionFrom(Head(spans).text, 1), y_pos |-> Head(spans).y]>>
          ELSE <<>>) \o AbbildungPositions(Tail(spans))

\* :59-68, the captions whose file does not exist yet
RECURSIVE DropExported(_, _)
DropExported(positions, dir) ==
    IF positions = <<>> THEN <<>>
    ELSE (IF Head(positions).number \in DOMAIN dir THEN <<>> ELSE <<Head(positions)>>)
            \o DropExported(Tail(positions), dir)

\* :92-101 and :129-137: the first of the closest captions above the image,
\* as <<caption>>, or <<>>
RECURSIVE BestMatch(_, _, _)
BestMatch(positions, img_y_pos, best) ==
    IF positions = <<>> THEN best
    ELSE LET ab == Head(positions)
             closer == /\ ab.y_pos < img_y_pos
                       /\ (best = <<>> \/ img_y_pos - ab.y_pos < img_y_pos - best[1].y_pos)
         IN  BestMatch(Tail(positions), img_y_pos, IF closer THEN <<ab>> ELSE best)

\* what is written: the pixels, converted to RGB for CMYK images (:121) and for
\* images with an alpha channel (:112-113)
SavedPixmap(img) == [pix |-> img.pix, rgb |-> img.cmyk \/ img.alpha]

\* :76-156, one image; st = [dir, count]
ProcessImage(st, img, positions) ==
    IF ~img.readable \/ img.rects = <<>> THEN st
    ELSE LET best == BestMatch(positions, img.rects[1], <<>>) IN
         IF best = <<>> \/ img.rects[1] - best[1].y_pos >= max_distance THEN st
         ELSE IF best[1].number \in DOMAIN st.dir THEN st
         ELSE [dir |-> (best[1].number :> SavedPixmap(img)) @@ st.dir, count |-> st.count + 1]

RECURSIVE ProcessImages(_, _, _)
ProcessImages(st, images, positions) ==
    IF images = <<>> THEN st
    ELSE ProcessImages(ProcessImage(st, Head(images), positions), Tail(images), positions)

\* :27-159, one page
ProcessFigurePage(st, p) ==
    LET positions == DropExported(AbbildungPositions(p.spans), st.dir) IN
    IF p.images = <<>> \/ positions = <<>> THEN st
    ELSE ProcessImages(st, p.images, positions)

\* :18-25; the picture PDF is the same in every run
StartExtract ==
    /\ fpc \in {"idle", "done"} /\ nruns < MaxRuns
    /\ fpc' = "run"
    /\ nruns' = nruns + 1
    /\ figure_page_num' = 0
    /\ extracted_count' = 0
    /\ UNCHANGED <<output_dir, figure_doc>>
    /\ UNCHANGED <<extractvars, extendvars>>

\* :26-159
ExtractPage ==
    /\ fpc = "run" /\ figure_page_num < Len(figure_doc)
    /\ LET st == ProcessFigurePage([dir |-> output_dir, count |-> extracted_count],
                                   figure_doc[figure_page_num + 1])
       IN  /\ output_dir' = st.dir
           /\ extracted_count' = st.count
    /\ figure_page_num' = figure_page_num + 1
    /\ UNCHANGED <<figure_doc, fpc, nruns>>
    /\ UNCHANGED <<extractvars, extendvars>>

\* :161-162
FinishExtract ==
    /\ fpc = "run" /\ figure_page_num = Len(figure_doc)
    /\ fpc' = "done"
    /\ UNCHANGED <<output_dir, figure_doc, figure_page_num, extracted_count, nruns>>
    /\ UNCHANGED <<extractvars, extendvars>>

NextFigures == StartExtract \/ ExtractPage \/ FinishExtract

\* the pages of the picture PDF: captions 'Abbildung 1' close above the images and
\* 'Abbildung 2' at the top of the page, a text that is no caption; an RGB image,
\* a CMYK image just below it, an image with an alpha channel further down, an
\* image the page does not show and one that cannot be read
CaptionOne == [text |-> <<"Abbildung", " ", "1">>, y |-> 100]
CaptionTwo == [text |-> <<"w", " ", "Abbildung", " ", "2", " ", "w">>, y |-> 10]
NoCaption == [text |-> <<"Abbildung", "7">>, y |-> 100]
SampleSpans == {CaptionOne, CaptionTwo, NoCaption}

ImageRgb == [readable |-> TRUE, cmyk |-> FALSE, alpha |-> FALSE, rects |-> <<120>>, pix |-> "a"]
ImageCmyk == [readable |-> TRUE, cmyk |-> TRUE, alpha |-> FALSE, rects |-> <<130>>, pix |-> "b"]
ImageLow == [readable |-> TRUE, cmyk |-> FALSE, alpha |-> TRUE, rects |-> <<210>>, pix |-> "c"]
ImageUnplaced == [readable |-> TRUE, cmyk |-> FALSE, alpha |-> FALSE, rects |-> <<>>, pix |-> "d"]
ImageBroken == [readable |-> FALSE, cmyk |-> FALSE, alpha |-> FALSE, rects |-> <<120>>, pix |-> "e"]

FigurePages ==
    {[spans |-> sp, images |-> im] :
        sp \in SeqsUpTo(SampleSpans, MaxSpans),
        im \in SeqsUpTo({ImageRgb, ImageCmyk, ImageLow}, MaxImages)
                  \cup {<<ImageUnplaced>>, <<ImageBroken, ImageCmyk>>}}

\* the second page of a two-page PDF
FollowPages ==
    {[spans |-> <<CaptionOne>>, images |-> <<ImageRgb>>],
     [spans |-> <<CaptionTwo, CaptionOne>>, images |-> <<ImageCmyk>>],
     [spans |-> <<CaptionTwo>>, images |-> <<>>]}

FigureDocs ==
    {<<p>> : p \in FigurePages} \cup {<<p, q>> : p \in FigurePages, q \in FollowPages}

\* the pipeline before its first step (__main__.py:105), with an empty image
\* directory
InitFigures ==
    /\ questions = <<>>
    /\ section_id = 0 /\ subsection_id = 0
    /\ current_section = NoneT /\ current_subsection = NoneT
    /\ question_bbox = <<>> /\ current_question_data = 0 /\ answer_bboxes = <<>>
    /\ page_num = 0 /\ drawings = <<>> /\ pc = "scan" /\ error = NoError /\ files = <<>>
    /\ doc = <<>> /\ lines = <<>> /\ planned = FALSE /\ page = NoPage /\ save_images = FALSE
    /\ input = [kind |-> "none", line |-> <<>>, hits |-> <<>>, renders |-> TRUE]
    /\ nsteps = 0
    /\ target_questions = <<>>
    /\ next_target = 0
    /\ extended_file = <<>>
    /\ existing_questions = <<>>
    /\ extended_questions = <<>>
    /\ api_calls = 0
    /\ xpc = "idle"
    /\ ncalls = 0
    /\ output_dir = <<>>
    /\ figure_doc \in FigureDocs
    /\ figure_page_num = 0
    /\ extracted_count = 0
    /\ fpc = "idle"
    /\ nruns = 0

SpecFigures == InitFigures /\ [][NextFigures]_vars

----------------------------------------------------------------------------
(* Properties *)

QuestionIndexes == 1..Len(questions)

\* the steps that process a line of the given kind (input' is that line)
LineStep(kind) == input'.kind = "line" /\ LineKind(input'.line) = kind

\* the (shape, box) pairs of a page's shapes and an answer's candidate boxes that
\* are a filled indicator left of the box (:116-126)
IndicatorPairs(ds, boxes) ==
    {ij \in (1..Len(ds)) \X (1..Len(boxes)) :
        /\ ds[ij[1]].type = "fs"
        /\ ds[ij[1]].fill # NoFill
        /\ LeftOfAnswer(ds[ij[1]].rect, boxes[ij[2]])}

\* C1: in every reachable state every Question of the output list has at most
\* one label in its correct list.
C1_AtMostOneCorrect ==
    \A i \in QuestionIndexes : Len(questions[i].correct) <= 1

\* C1 witness: a second indicator was met for a question that holds one label
C1_Witness ==
    /\ pc = "raised"
    /\ questions # <<>>
    /\ error.what = "Multiple correct answers found for question"
    /\ Len(Last(questions).correct) = 1

\* C2: an answer line that finds a filled indicator while the open question's
\* correct list is not empty (the earlier mark made by an earlier answer line, or
\* by an earlier shape of the same line) raises the error naming the question's
\* id, leaves the earlier label as it is, and the function never returns.
C2_SecondIndicatorRaises ==
    [][/\ (LineStep("answer") /\ questions # <<>>) =>
            LET n == Cardinality(IndicatorPairs(drawings,
                                    AnswerCandidates(input'.hits, question_bbox)))
                before == Last(questions).correct
                code == ParseAnswerLine(input'.line).code
                Raised(label) ==
                    /\ pc' = "raised"
                    /\ error' = MultipleCorrect(Last(questions).id)
                    /\ Len(questions') = Len(questions)
                    /\ Last(questions').correct = label
            IN  /\ (n >= 1 /\ before # <<>>) => Raised(before)
                /\ (n >= 2 /\ before = <<>>) => Raised(<<code>>)
       /\ (pc = "raised" => pc' = "raised")
      ]_vars

\* C2 witness: the second indicator came with a later answer line
C2_Witness ==
    /\ pc = "raised"
    /\ questions # <<>>
    /\ error = MultipleCorrect(Last(questions).id)
    /\ input.kind = "line"
    /\ Last(questions).correct # <<ParseAnswerLine(input.line).code>>

\* C3: a page whose lines are a question line N) and the answer lines A) to D),
\* with exactly one filled indicator, left of the box of label L, gives exactly
\* one Question, with id N, the four answers and correct = [L].
C3_FixtureResult ==
    \A id \in FixtureIds, label \in AnswerLetters, footer \in BOOLEAN, checkbox \in BOOLEAN :
        (page = FixturePage(id, label, footer, checkbox) /\ lines = <<>> /\ pc # "scan") =>
            /\ pc = "done"
            /\ Len(questions) = 1
            /\ questions[1].id = id
            /\ questions[1].answers = [c \in {<<l>> : l \in AnswerLetters} |-> FixtureAnswer(c[1])]
            /\ questions[1].correct = <<<<label>>>>

\* the shapes of the current page that are filled-only, of the given swatch, and
\* hold the start of one of the boxes of the line being processed (:137-148)
BannerShapes(fill) ==
    {i \in 1..Len(drawings) :
        /\ drawings[i].type = "f"
        /\ drawings[i].fill = fill
        /\ HitInside(drawings[i].rect, input'.hits)}

ContextVars == <<current_section, current_subsection, section_id, subsection_id>>

\* C4: on a page without vector shapes no line adds a label to the correct list
\* of any Question (a new Question starts with an empty one), and no line changes
\* current_section, current_subsection, section_id or subsection_id.
C4_NoShapesNoChange ==
    [][(input'.kind = "line" /\ page'.shapes = <<>>) =>
          /\ UNCHANGED ContextVars
          /\ Len(questions') >= Len(questions)
          /\ \A i \in 1..Len(questions') :
                questions'[i].correct = IF i <= Len(questions) THEN questions[i].correct ELSE <<>>
      ]_vars

\* C4 witness: on a second page, without shapes, a context line with a box was
\* processed after a section banner of the first page
C4_Witness ==
    /\ page_num = 2
    /\ page.shapes = <<>>
    /\ section_id >= 1
    /\ input.kind = "line"
    /\ LineKind(input.line) = "context"
    /\ input.hits # <<>>

\* C5: section_id and subsection_id start at 0; no step lowers them; the step
\* that takes one of them off 0, the first matching banner of its tier, takes it
\* to 1; the ids of the Questions, in output order, are non-decreasing.
C5_IdsStartAtOne ==
    /\ section_id = 0 /\ subsection_id = 0
    /\ [][/\ section_id' >= section_id
          /\ subsection_id' >= subsection_id
          /\ ((section_id = 0 /\ section_id' # 0) => section_id' = 1)
          /\ ((subsection_id = 0 /\ subsection_id' # 0) => subsection_id' = 1)
         ]_vars
    /\ [](\A i, j \in QuestionIndexes :
             i <= j => /\ questions[i].section_id <= questions[j].section_id
                       /\ questions[i].subsection_id <= questions[j].subsection_id)

\* C6: a context line raises section_id by exactly one when its box lies in
\* filled-only shapes of the section swatch, and subsection_id by exactly one when
\* it lies in shapes of the subsection swatch, however many such shapes there are.
C6_BannerCountedOnce ==
    [][(LineStep("context") /\ pc' # "raised") =>
          /\ section_id' = section_id + (IF BannerShapes(SectionFill) # {} THEN 1 ELSE 0)
          /\ subsection_id' =
                subsection_id + (IF BannerShapes(SubsectionFill) # {} THEN 1 ELSE 0)
      ]_vars

\* C7: a new Question carries the running section, subsection, section_id and
\* subsection_id of the moment it is appended; the four fields of a Question
\* never change afterwards; opening a page leaves the running state as it is.
C7_QuestionCarriesContext ==
    /\ current_section = NoneT /\ current_subsection = NoneT
    /\ section_id = 0 /\ subsection_id = 0
    /\ [][/\ Len(questions') >= Len(questions)
          /\ \A i \in 1..Len(questions') :
                LET q == questions'[i] IN
                IF i <= Len(questions)
                THEN /\ q.section = questions[i].section
                     /\ q.subsection = questions[i].subsection
                     /\ q.section_id = questions[i].section_id
                     /\ q.subsection_id = questions[i].subsection_id
                ELSE /\ q.section = current_section
                     /\ q.subsection = current_subsection
                     /\ q.section_id = section_id
                     /\ q.subsection_id = subsection_id
          /\ (input'.kind # "line" => UNCHANGED ContextVars)
          /\ (LineStep("question") => UNCHANGED ContextVars)
         ]_vars

\* C7 witness: a Question of the second page, which has no banner, carries the
\* section that a banner of the first page set
C7_Witness ==
    /\ page_num = 2
    /\ page.shapes = <<>>
    /\ questions # <<>>
    /\ Last(questions).page = 1
    /\ Last(questions).section_id = 1
    /\ Last(questions).subsection_id = 0
    /\ Last(questions).section = <<"w">>

\* C10: a file that images_dir holds is never written again: it stays, with the
\* content it has.
C10_NoOverwrite ==
    [][\A f \in DOMAIN files : f \in DOMAIN files' /\ files'[f] = files[f]]_vars

\* the last line processed was a question line
QuestionLineDone == input.kind = "line" /\ LineKind(input.line) = "question"

\* C8: a question line whose body, the text after the first ') ', begins with
\* 'Abbildung ' gives a Question whose abbildung is the token between 'Abbildung '
\* and the first ': ' and whose text is the remainder after that ': '; any other
\* question line gives a Question with a null abbildung and the body as its text
\* (texts compared after the removal of footers and the whitespace clean-up).
C8_AbbildungSplit ==
    QuestionLineDone =>
        LET body == SplitParen(input.line).body
            rest == Drop(body, 2)
            j == Find(rest, <<":", " ">>)
        IN  /\ pc = "scan"
            /\ questions # <<>>
            /\ IF StartsWith(body, <<"Abbildung", " ">>)
               THEN /\ j # 0
                    /\ Last(questions).abbildung = Strip(CleanBody(Take(rest, j - 1)))
                    /\ Last(questions).question = Strip(CleanBody(Drop(rest, j + 1)))
               ELSE /\ Last(questions).abbildung = NoneT
                    /\ Last(questions).question = Strip(CleanBody(body))

\* C9: no stored question text and no stored answer text holds a footer
\* 'Seite n von m', and no logical line after the first of a page starts with
\* the footer's word.
C9_NoFooterInText ==
    /\ \A i \in QuestionIndexes :
          /\ ~HasFooter(questions[i].question)
          /\ \A c \in DOMAIN questions[i].answers : ~HasFooter(questions[i].answers[c])
    /\ LET ls == SplitLines(page.text) IN
       \A i \in 2..Len(ls) : ~StartsWith(LStrip(ls[i]), <<"Seite">>)

\* C11: when the rendering or writing of a question's image fails, the step that
\* finalizes the question raises nothing of its own (a raise of that step is the
\* unpacking error of the new question line), leaves every field of every
\* Question and every file as it is, and the pass goes on with another question
\* open or returns; an image_path is only ever set by a rendering that succeeds,
\* on the question being finalized.
C11_RenderFailureTolerated ==
    [][/\ (input'.kind \in {"line", "return"} /\ WillSave /\ ~input'.renders) =>
             /\ questions[current_question_data].image_path = NoPath
             /\ Len(questions') >= Len(questions)
             /\ \A i \in QuestionIndexes : questions'[i] = questions[i]
             /\ files' = files
             /\ (pc' = "raised" => error' = UnpackError)
             /\ (pc' = "scan" => current_question_data' # current_question_data)
             /\ pc' \in {"scan", "done", "raised"}
       /\ \A i \in QuestionIndexes :
             (i <= Len(questions') /\ questions'[i].image_path # questions[i].image_path) =>
                 i = current_question_data /\ WillSave /\ input'.renders
      ]_vars

\* C11 witness: the image of the first question failed and a second question was
\* appended after it
C11_Witness ==
    /\ Len(questions) = 2
    /\ input.kind = "line"
    /\ ~input.renders
    /\ questions[1].image_path = NoPath
    /\ questions[1].answers # <<>>
    /\ pc = "scan"

\* C12: the pass aborts for one reason only, the second correctness indicator of
\* a question; in every other case it runs on and returns.
C12_OnlyMultipleCorrectAborts ==
    pc = "raised" =>
        /\ questions # <<>>
        /\ error = MultipleCorrect(Last(questions).id)

\* C13: the list only grows; no step changes a Question that is not the last of
\* the list; the step that appends Question k+1 leaves every field of Question k
\* other than image_path as it is.
C13_AppendOnly ==
    [][/\ Len(questions') >= Len(questions)
       /\ Len(questions') <= Len(questions) + 1
       /\ \A i \in QuestionIndexes :
             IF i < Len(questions)
             THEN questions'[i] = questions[i]
             ELSE Len(questions') > Len(questions) =>
                     [questions'[i] EXCEPT !.image_path = NoPath]
                        = [questions[i] EXCEPT !.image_path = NoPath]
      ]_vars

\* C13 witness: a second Question was appended after the first got an answer, its
\* correct mark and its image
C13_Witness ==
    /\ Len(questions) = 2
    /\ questions[1].answers # <<>>
    /\ questions[1].correct # <<>>
    /\ questions[1].image_path # NoPath

\* a captured marker of the split: a question id of one to three digits, or one
\* of the letters A-D
IsMarkerToken(x) ==
    \/ Len(x) \in 1..3 /\ \A i \in 1..Len(x) : x[i] \in Digits
    \/ Len(x) = 1 /\ x[1] \in AnswerLetters

\* C14: no logical line of a page is just a captured marker token.
C14_NoBareMarkerLine ==
    \A i \in 1..Len(lines) : ~IsMarkerToken(lines[i])

\* C15: in the pipeline a source Question yields synthetic questions only if its
\* text holds the keyword 'abbildung' and more than one number.
C15_OnlyFigureQuestionsExtended ==
    [][(xpc = "loop" /\ next_target' = next_target + 1) =>
          LET q == target_questions[next_target'] IN
          (extended_questions' # extended_questions \/ extended_file' # extended_file) =>
              has_abbildung_in_text(q.question) /\ has_multiple_numbers(q.question)
      ]_vars

\* C16: an answer line that comes before every question line leaves the list
\* empty and raises nothing, whatever the shapes of the page.
C16_AnswerBeforeQuestion ==
    [][(LineStep("answer") /\ questions = <<>>) =>
          /\ questions' = <<>>
          /\ pc' = "scan"
          /\ error' = NoError
      ]_vars

\* C17: for every answer line at most one box is tested against the shapes, and
\* a tested box is the topmost of the hits that lie strictly below the box of the
\* current question; this also when the lookup of the question gave no box.
C17_OneCandidateBelow ==
    [][LineStep("answer") =>
          LET tested == AnswerCandidates(input'.hits, question_bbox)
              hits == input'.hits
          IN  /\ Len(tested) <= 1
              /\ \A i \in 1..Len(tested) :
                    question_bbox # <<>> =>
                        /\ tested[i].y0 > question_bbox[1].y0
                        /\ \E j \in 1..Len(hits) : hits[j] = tested[i]
                        /\ \A j \in 1..Len(hits) :
                              hits[j].y0 > question_bbox[1].y0 => tested[i].y0 <= hits[j].y0
      ]_vars

\* the (shape, box) pairs of the shapes of the page and the tested boxes of the
\* answer line being processed in which the shape is stroked+filled with a fill,
\* ends at or left of the box's left edge, spans the box's top and bottom within
\* the margin, and has its top less than (strict), or at most (not strict), the
\* margin away from the box's top
Indicators(strict) ==
    LET tested == AnswerCandidates(input'.hits, question_bbox) IN
    {ij \in (1..Len(drawings)) \X (1..Len(tested)) :
        LET d == drawings[ij[1]]
            b == tested[ij[2]]
            gap == IF d.rect.y0 >= b.y0 THEN d.rect.y0 - b.y0 ELSE b.y0 - d.rect.y0
        IN  /\ d.type = "fs"
            /\ d.fill # NoFill
            /\ d.rect.x1 <= b.x0
            /\ d.rect.y0 - 4 <= b.y0 /\ b.y0 <= d.rect.y1 + 4
            /\ d.rect.y0 - 4 <= b.y1 /\ b.y1 <= d.rect.y1 + 4
            /\ IF strict THEN gap < 4 ELSE gap <= 4}

\* C18 as stated: the label of an answer line is added to the correct list of the
\* open question, which holds no label yet, if and only if some shape qualifies,
\* every distance being within the margin of 4 units, the margin included.
C18_MarkedIffIndicator ==
    [][(LineStep("answer") /\ questions # <<>> /\ Last(questions).correct = <<>>) =>
          (Last(questions').correct = <<ParseAnswerLine(input'.line).code>>
              <=> Indicators(FALSE) # {})
      ]_vars

\* C18 amended: the top of the shape must be strictly less than 4 units from the
\* top of the box.  With no such shape an answer line changes no correct list and
\* raises nothing; with one, the label is appended to the correct list of the
\* last Question if that list is empty, the error of the second indicator is
\* raised if it is not (or if a second pair qualifies), and IndexError is raised
\* if there is no Question.
C18_MarkedIffStrictIndicator ==
    [][LineStep("answer") =>
          LET n == Cardinality(Indicators(TRUE))
              code == ParseAnswerLine(input'.line).code
          IN  /\ Len(questions') = Len(questions)
              /\ \A i \in QuestionIndexes :
                    i < Len(questions) => questions'[i].correct = questions[i].correct
              /\ n = 0 =>
                    /\ \A i \in QuestionIndexes : questions'[i].correct = questions[i].correct
                    /\ pc' = "scan"
              /\ (n >= 1 /\ questions = <<>>) =>
                    pc' = "raised" /\ error' = ListIndexError
              /\ (n >= 1 /\ questions # <<>>) =>
                    /\ Last(questions').correct =
                          IF Last(questions).correct = <<>> THEN <<code>>
                          ELSE Last(questions).correct
                    /\ IF n >= 2 \/ Last(questions).correct # <<>>
                       THEN pc' = "raised" /\ error' = MultipleCorrect(Last(questions).id)
                       ELSE pc' = "scan"
      ]_vars

\* C18 witness: the answer B was processed on a page whose only shape is the
\* filled one exactly 4 units above the top of the answer's box, and is not marked
C18_Witness ==
    /\ input.kind = "line"
    /\ ParseAnswerLine(input.line).code = <<"B">>
    /\ input.hits = <<ABoxB>>
    /\ drawings = <<OffsetMarkB>>
    /\ questions # <<>>
    /\ <<"B">> \in DOMAIN Last(questions).answers
    /\ Last(questions).correct = <<>>
    /\ pc = "scan"

\* the shapes of the page that are filled-only, of the given swatch, and contain
\* all four corners of one of the boxes of the line being processed
ContainingShapes(fill) ==
    {i \in 1..Len(drawings) :
        /\ drawings[i].type = "f"
        /\ drawings[i].fill = fill
        /\ \E j \in 1..Len(input'.hits) :
              LET r == drawings[i].rect
                  b == input'.hits[j]
              IN  /\ r.x0 <= b.x0 /\ b.x1 <= r.x1
                  /\ r.y0 <= b.y0 /\ b.y1 <= r.y1}

\* C19: a context line changes the section (the subsection) only if a filled-only
\* shape of the section (subsection) swatch contains the whole box of the line.
C19_BannerContainsBox ==
    [][LineStep("context") =>
          /\ (section_id' # section_id \/ current_section' # current_section) =>
                ContainingShapes(SectionFill) # {}
          /\ (subsection_id' # subsection_id \/ current_subsection' # current_subsection) =>
                ContainingShapes(SubsectionFill) # {}
      ]_vars

\* C20: a context line that matches a section banner sets current_section to its
\* second-to-last segment and raises section_id; one that matches a subsection
\* banner sets current_subsection to its last segment and raises subsection_id;
\* no matching line, a line of one segment included, makes the pass fail.
C20_BannerText ==
    [][LineStep("context") =>
          LET segs == SplitNl(Strip(input'.line)) IN
          /\ BannerShapes(SectionFill) # {} =>
                /\ pc' = "scan"
                /\ section_id' > section_id
                /\ Len(segs) >= 2 => current_section' = Strip(segs[Len(segs) - 1])
          /\ BannerShapes(SubsectionFill) # {} =>
                /\ pc' = "scan"
                /\ subsection_id' > subsection_id
                /\ current_subsection' = Strip(segs[Len(segs)])
      ]_vars

\* C21: with image saving on, the image of the open Question is captured by the
\* step that processes the next question line, or by the return, when the
\* Question has a text box and at least one answer box collected since its own
\* question line, from exactly these boxes; no other step captures an image;
\* after the capture the Question is never the open one again; every question
\* line empties the pending answer boxes, and only answer lines add to them.
C21_CaptureOncePerQuestion ==
    [][LET k == current_question_data
           finalizing == input'.kind = "return" \/ LineStep("question")
           complete == k # 0 /\ question_bbox # <<>> /\ answer_bboxes # <<>>
           name == <<questions[k].section_id, questions[k].subsection_id,
                     questions[k].id, questions[k].page>>
       IN  /\ (save_images /\ finalizing /\ complete /\ input'.renders) =>
                 /\ questions'[k].image_path = name
                 /\ name \in DOMAIN files'
                 /\ files'[name] = [page |-> questions[k].page,
                                    clip |-> ClipRect(question_bbox, answer_bboxes)]
                 /\ \A f \in DOMAIN files' \ {name} : f \in DOMAIN files /\ files'[f] = files[f]
           /\ (save_images /\ finalizing /\ complete) =>
                 (pc' # "scan" \/ current_question_data' > k)
           /\ ~(save_images /\ finalizing /\ complete) =>
                 /\ files' = files
                 /\ \A i \in QuestionIndexes : questions'[i].image_path = questions[i].image_path
           /\ current_question_data' >= current_question_data
           /\ LineStep("question") => answer_bboxes' = <<>>
           /\ LineStep("answer") => answer_bboxes' = answer_bboxes \o input'.hits
           /\ ~LineStep("question") =>
                 /\ current_question_data' = current_question_data
                 /\ question_bbox' = question_bbox
           /\ ~(LineStep("question") \/ LineStep("answer")) => answer_bboxes' = answer_bboxes
      ]_vars

\* C21 witness: the pass returned with two Questions; the first, with a text box
\* and an answer box, has its image; the second, with a text box and no answer
\* box, has none
C21_Witness ==
    /\ pc = "done"
    /\ save_images
    /\ Len(questions) = 2
    /\ questions[1].image_path # NoPath
    /\ questions[1].answers # <<>>
    /\ questions[2].image_path = NoPath
    /\ question_bbox # <<>>
    /\ answer_bboxes = <<>>

\* no two records of a list carry the same id
DistinctIds(recs) ==
    \A i, j \in 1..Len(recs) : recs[i].id = recs[j].id => i = j

\* C22: starting from an absent file, the file and the returned list never hold
\* two records with the same id, and a call after the first, whose input is the
\* input of the first, makes no call of the remote model and appends nothing to
\* the file or to the list it loaded.
C22_NoDuplicateNoRepeat ==
    /\ extended_file = <<>>
    /\ [](DistinctIds(extended_file) /\ DistinctIds(extended_questions))
    /\ [][(ncalls >= 2 /\ xpc = "loop" /\ target_questions = questions) =>
             /\ api_calls' = api_calls
             /\ extended_file' = extended_file
             /\ extended_questions' = extended_questions
         ]_vars

\* C23: whatever the remote call gives back, generate_single_question returns a
\* record and raises nothing, so the enrichment never ends with an exception;
\* for every Question the loop has taken, every number and every outcome other
\* than a parsed JSON object the record is the fallback, with the extracted
\* answer as answer A and correct = [A].
C23_SingleQuestionNeverRaises ==
    /\ xpc # "raised"
    /\ \A i \in 1..next_target : \A n \in Digits : \A outcome \in ApiOutcomes :
          LET q == target_questions[i]
              correct_answer ==
                  IF q.correct = <<>> THEN <<>>
                  ELSE extract_answer_for_number(q.answers, q.correct[1], n)
              made == generate_single_question(q, n, correct_answer, outcome)
          IN  /\ made.ok
              /\ outcome # "object" =>
                    /\ made.q.answers[<<"A">>] = correct_answer
                    /\ made.q.correct = <<<<"A">>>>

\* C24: when an answer line is processed while a question box is held, the box
\* was found on the page of the answer line; an answer line with one box and a
\* filled indicator left of it marks its label in the open Question, which has
\* no label yet, also when the Question began on an earlier page.
C24_QuestionBoxOfSamePage ==
    [][(LineStep("answer") /\ questions # <<>> /\ question_bbox # <<>>) =>
          /\ Last(questions).page = page_num - 1
          /\ (/\ Last(questions).page < page_num - 1
              /\ Len(input'.hits) = 1
              /\ IndicatorPairs(drawings, input'.hits) # {}
              /\ Last(questions).correct = <<>>) =>
                Last(questions').correct = <<ParseAnswerLine(input'.line).code>>
      ]_vars

\* C25: a context line whose box starts in shapes of the section swatch and in
\* none of the subsection swatch leaves current_subsection, subsection_id, the
\* list and every other variable of the pass as they are; unless it raises, it
\* sets current_section and raises section_id.  A Question appended afterwards
\* carries the subsection text and id that are current, those of the section
\* before when no subsection banner came in between.
C25_SectionKeepsSubsection ==
    [][/\ (/\ LineStep("context")
           /\ BannerShapes(SectionFill) # {}
           /\ BannerShapes(SubsectionFill) = {}) =>
             /\ UNCHANGED <<current_subsection, subsection_id, questions, question_bbox,
                            current_question_data, answer_bboxes, files, page_num, drawings>>
             /\ (pc' = "scan" =>
                    LET segs == SplitNl(Strip(input'.line)) IN
                    /\ section_id' > section_id
                    /\ current_section' = Strip(segs[Len(segs) - 1]))
             /\ (pc' # "scan" => UNCHANGED <<current_section, section_id>>)
       /\ (LineStep("question") /\ Len(questions') > Len(questions)) =>
             /\ Last(questions').subsection = current_subsection
             /\ Last(questions').subsection_id = subsection_id
             /\ UNCHANGED <<current_subsection, subsection_id>>
      ]_vars

\* C25 witness: the Question of the second page, whose header lies in a section
\* banner only, carries the new section and the subsection of the first page
C25_Witness ==
    /\ page_num = 2
    /\ drawings = <<SectionBanner>>
    /\ questions # <<>>
    /\ Last(questions).page = 1
    /\ Last(questions).section_id >= 1
    /\ Last(questions).subsection_id = 1
    /\ Last(questions).subsection = <<"x">>
    /\ Last(questions).section = <<"w">>

\* what tells two source Questions apart for the id scheme
SourceKey(q) == <<q.id, q.section_id, q.subsection_id>>

\* C26: in a call that starts from an absent file, a source Question and an
\* earlier one of the list that differ in id, section_id or subsection_id have
\* different synthetic ids for every sequence index, and every number of the
\* Question whose answer could be extracted has its synthetic question, made from
\* this Question, in the list after the Question has been processed.
C26_SyntheticIdsInjective ==
    [][(xpc = "loop" /\ ncalls = 1 /\ next_target' = next_target + 1 /\ xpc' = "loop") =>
          LET q == target_questions[next_target']
              numbers == extract_numbers_from_text(q.question)
          IN  /\ \A j \in 1..next_target : \A i \in 1..MaxNumbers :
                    SourceKey(target_questions[j]) # SourceKey(q) =>
                        NewId(OriginalId(target_questions[j]), i) # NewId(OriginalId(q), i)
              /\ q.correct # <<>> =>
                    \A i \in 1..Len(numbers) :
                        extract_answer_for_number(q.answers, q.correct[1], numbers[i]) # <<>> =>
                            \E r \in 1..Len(extended_questions') :
                                /\ extended_questions'[r].id = NewId(OriginalId(q), i)
                                /\ extended_questions'[r].section_id = q.section_id
                                /\ extended_questions'[r].subsection_id = q.subsection_id
      ]_vars

\* C27: a run of extract_images_with_numbers on the directory that an earlier
\* run on the same PDF left creates no file and changes none.
C27_SecondRunChangesNothing ==
    [][nruns >= 2 => output_dir' = output_dir]_vars

====
